---- MODULE Spec2Model ----
(***************************************************************************)
(* A model of movie_scraper.py: the module-level fetch of the listing      *)
(* page, the per-movie extraction functions, the worker pool that main()   *)
(* drives with executor.map, and the aggregation that writes the CSV       *)
(* report.                                                                  *)
(*                                                                          *)
(* Text that a regular expression reads (titles, summary pages, budgets,   *)
(* ratings) is a sequence of characters.  The two fixed labels of the      *)
(* summary page are one symbol each.  Table cells are atomic strings.      *)
(***************************************************************************)
EXTENDS Integers, Sequences, FiniteSets, TLC

VARIABLES
    ROOT_RESPONSE,        \* the response to the listing request (status, table rows)
    ROOT_HTML,            \* the listing rows, one anchor per line; "unset" before the import ran
    summary_pages,        \* the server's response for each summary URL
    box_office_pages,     \* the server's response for each box-office URL
    pc,                   \* where the main thread is
    error,                \* the exception that ended the run, "none" otherwise
    movies,               \* main(): the listing rows kept
    futures,              \* the executor's work items, one per movie
    next,                 \* the index executor.map yields next
    budgets,              \* main(): rank -> budget
    ratings,              \* main(): rank -> rating
    box_office,           \* main(): the per-movie frames collected so far
    csv,                  \* the report file: "absent" or its rows
    overtaken,            \* history: a call has completed before one submitted earlier
    arg_summary,          \* argument of a direct call of get_budget / get_rating
    arg_box_office,       \* argument of a direct call of get_box_office_stats
    called,               \* the function a direct call ran, "none" before
    ret                   \* what the direct call returned

vars == <<ROOT_RESPONSE, ROOT_HTML, summary_pages, box_office_pages, pc, error, movies,
          futures, next, budgets, ratings, box_office, csv, overtaken,
          arg_summary, arg_box_office, called, ret>>

runVars == <<ROOT_RESPONSE, ROOT_HTML, summary_pages, box_office_pages, pc, error, movies,
             futures, next, budgets, ratings, box_office, csv, overtaken>>

callVars == <<arg_summary, arg_box_office, called, ret>>

-----------------------------------------------------------------------------
(* Bounds of the model *)

MaxMovies == 2        \* listing rows that survive the drop of the footer
MaxRank == 2          \* ranks are 1..MaxRank
MaxBudgetLen == 5     \* characters of a summary page given to get_budget
MaxRatingLen == 6     \* markup pieces on the line after the rating label
MaxTables == 2        \* tables of a box-office page given to get_box_office_stats
MaxRows == 2          \* data rows of a table given to get_box_office_stats

(* Program constants *)

MAX_THREADING_WORKERS == 100

-----------------------------------------------------------------------------
(* Text *)

Min(S) == CHOOSE m \in S : \A o \in S : m <= o
Max(S) == CHOOSE m \in S : \A o \in S : m >= o

RECURSIVE Flatten(_)
Flatten(ss) == IF ss = <<>> THEN <<>> ELSE Head(ss) \o Flatten(Tail(ss))

RECURSIVE SeqsUpTo(_, _)
SeqsUpTo(S, n) ==
    IF n = 0 THEN {<<>>}
    ELSE LET shorter == SeqsUpTo(S, n - 1)
         IN  shorter \cup {Append(s, e) : s \in {t \in shorter : Len(t) = n - 1}, e \in S}

NA == "N/A"                       \* the sentinel in a table cell
NA_TEXT == <<"N", "/", "A">>      \* the sentinel as the text of a budget or rating
ELLIPSIS == "..."                 \* the single character U+2026
BUDGET_LABEL == "Production&nbsp;Budget:"
RATING_LABEL == "MPAA&nbsp;Rating:"
NEWLINE == "\n"

\* str.removesuffix of the ellipsis character
RemoveSuffix(movie) ==
    IF Len(movie) > 0 /\ movie[Len(movie)] = ELLIPSIS
    THEN SubSeq(movie, 1, Len(movie) - 1)
    ELSE movie

StartsWith(text, prefix) ==
    /\ Len(prefix) <= Len(text)
    /\ SubSeq(text, 1, Len(prefix)) = prefix

\* The last position of the line that position i is on (a dot never matches a newline).
LineEnd(s, i) ==
    LET nl == {j \in i..Len(s) : s[j] = NEWLINE}
    IN  IF nl = {} THEN Len(s) ELSE Min(nl) - 1

-----------------------------------------------------------------------------
\* get_budget: re.search of  Production&nbsp;Budget:.*(?P<budget>\$[0-9|,]+)

BudgetClass == {"0", "1", "2", "3", "4", "5", "6", "7", "8", "9", "|", ","}

\* Where the group can start for a match that starts at label position i:
\* a dollar sign later on the same line that a character of the class follows.
BudgetAt(s, i) ==
    {p \in (i + 1)..LineEnd(s, i) : s[p] = "$" /\ p + 1 <= Len(s) /\ s[p + 1] \in BudgetClass}

BudgetRunEnd(s, p) ==
    Max({q \in (p + 1)..Len(s) : \A k \in (p + 1)..q : s[k] \in BudgetClass})

get_budget(response) ==
    LET s == response
        starts == {i \in 1..Len(s) : s[i] = BUDGET_LABEL /\ BudgetAt(s, i) # {}}
    IN  IF starts = {} THEN NA_TEXT
        ELSE LET p == Max(BudgetAt(s, Min(starts)))       \* leftmost match, greedy
             IN  SubSeq(s, p, BudgetRunEnd(s, p))

-----------------------------------------------------------------------------
\* get_rating: re.search of  MPAA&nbsp;Rating:.*\n.+<a.+>(?P<rating>.*)</a>

IsAt(s, i, w) == i + Len(w) - 1 <= Len(s) /\ SubSeq(s, i, i + Len(w) - 1) = w

OPEN_A == <<"<", "a">>
CLOSE_A == <<"<", "/", "a", ">">>

\* The line after the label's line, as the positions lo..hi; lo = 0 when there is none.
RatingLine(s, i) ==
    LET nl == {j \in (i + 1)..Len(s) : s[j] = NEWLINE}
    IN  IF nl = {} THEN [lo |-> 0, hi |-> 0]
        ELSE [lo |-> Min(nl) + 1, hi |-> LineEnd(s, Min(nl) + 1)]

\* The positions of the last </a> of the line (greedy group) and of the last > before
\* it (greedy .+ before >), provided an <a with a character on both sides precedes.
RatingSpan(s, i) ==
    LET ln == RatingLine(s, i)
        closes == {e \in ln.lo..ln.hi : e + 3 <= ln.hi /\ IsAt(s, e, CLOSE_A)}
        e == Max(closes)
        gts == {g \in ln.lo..(e - 1) : s[g] = ">"}
        g == Max(gts)
        opens == {a \in (ln.lo + 1)..(g - 3) : IsAt(s, a, OPEN_A)}
    IN  IF ln.lo = 0 \/ closes = {} THEN [found |-> FALSE, g |-> 0, e |-> 0]
        ELSE IF gts = {} THEN [found |-> FALSE, g |-> 0, e |-> 0]
        ELSE IF opens = {} THEN [found |-> FALSE, g |-> 0, e |-> 0]
        ELSE [found |-> TRUE, g |-> g, e |-> e]

get_rating(response) ==
    LET s == response
        starts == {i \in 1..Len(s) : s[i] = RATING_LABEL /\ RatingSpan(s, i).found}
    IN  IF starts = {} THEN NA_TEXT
        ELSE LET m == RatingSpan(s, Min(starts))
             IN  SubSeq(s, m.g + 1, m.e - 1)

-----------------------------------------------------------------------------
(* HTTP responses.  requests.get(...).text hands back the body whatever the  *)
(* status is; only raise_for_status() looks at the status.                   *)

Statuses == {200, 404}

Response(status, text) == [status |-> status, text |-> text]

\* Response.raise_for_status(): TRUE when it raises HTTPError
raise_for_status(response) == response.status >= 400 /\ response.status < 600

-----------------------------------------------------------------------------
(* get_box_office_stats.  A page is the sequence of its tables, a table has  *)
(* its column header and its rows, a row maps each column to a cell.         *)

NaN == "NaN"          \* a missing cell as pd.read_html reads it
ZERO == "0.0"         \* what fillna(0.0) puts there

watned_columns ==
    <<"Date", "Rank", "Gross", "%YD", "%LW", "Theaters", "Per Theater", "Total Gross", "Days">>

KeptColumns == {"Date", "Gross", "Theaters", "Days"}

Range(f) == {f[x] : x \in DOMAIN f}

Table(columns, rows) == [columns |-> columns, rows |-> rows]

\* pd.read_html: the tables of the page; it raises ValueError when there is none
read_html(text) ==
    IF text = <<>> THEN [exc |-> "ValueError: No tables found"] ELSE [exc |-> "none", tables |-> text]

\* data[["Date", "Gross", "Theaters", "Days"]].fillna(0.0).assign(Rank=rank), one row
Project(row, rank) ==
    [c \in KeptColumns \cup {"Rank"} |->
        IF c = "Rank" THEN rank ELSE IF row[c] = NaN THEN ZERO ELSE row[c]]

SentinelFrame(rank) ==
    << [c \in KeptColumns \cup {"Rank"} |-> IF c = "Rank" THEN rank ELSE NA] >>

get_box_office_stats(rank, box_office_response) ==
    LET html_response == read_html(box_office_response)
        tables == html_response.tables
        wanted == {k \in 1..Len(tables) :
                      /\ Len(tables[k].columns) = Len(watned_columns)
                      /\ tables[k].columns = watned_columns}
    IN  IF html_response.exc # "none" THEN [exc |-> html_response.exc]
        ELSE IF wanted = {} THEN [exc |-> "none", frame |-> SentinelFrame(rank)]
        ELSE LET data == tables[Min(wanted)]
             IN  [exc |-> "none",
                  frame |-> [r \in 1..Len(data.rows) |-> Project(data.rows[r], rank)]]

-----------------------------------------------------------------------------
(* get_summary_endpoint.  ROOT_HTML is the sequence of the listing's table   *)
(* rows, each on a line of its own; a row's Movie cell is the text of its    *)
(* anchor, and href is the path its anchor points to with #tab=summary, or   *)
(* NoSummaryLink when the row has no such anchor.  The pattern is            *)
(*   <a href="(?P<endpoint>.*#tab=summary)">TITLE                            *)
(* with nothing after the title, so an anchor matches when its text begins   *)
(* with the title; re.search returns the first one.                          *)

NoSummaryLink == 0

get_summary_endpoint(movie, html) ==
    LET title == RemoveSuffix(movie)
        matches == {j \in 1..Len(html) :
                       html[j].href # NoSummaryLink /\ StartsWith(html[j].Movie, title)}
    IN  IF matches = {} THEN [exc |-> "ValueError: Got no summary response"]
        ELSE [exc |-> "none", endpoint |-> html[Min(matches)].href]

-----------------------------------------------------------------------------
(* get_budget_rating_box_office: what one worker computes for one movie.     *)

\* A faulty variant: a lookup that finds no link is treated like a missing field.
LookupQuarantined(movie, rank, html, summaries, box_offices) ==
    LET summary_endpoint == get_summary_endpoint(movie, html)
        ep == summary_endpoint.endpoint
        stats == get_box_office_stats(rank, box_offices[ep].text)
    IN  IF summary_endpoint.exc # "none"
        THEN [exc |-> "none", endpoint |-> NoSummaryLink, rank |-> rank,
              budget |-> NA_TEXT, rating |-> NA_TEXT, box_office |-> SentinelFrame(rank)]
        ELSE IF stats.exc # "none" THEN [exc |-> stats.exc]
        ELSE [exc |-> "none",
              endpoint |-> ep,
              rank |-> rank,
              budget |-> get_budget(summaries[ep].text),
              rating |-> get_rating(summaries[ep].text),
              box_office |-> stats.frame]

get_budget_rating_box_office(movie, rank, html, summaries, box_offices) ==
    LET summary_endpoint == get_summary_endpoint(movie, html)
        ep == summary_endpoint.endpoint
        stats == get_box_office_stats(rank, box_offices[ep].text)
    IN  IF summary_endpoint.exc # "none" THEN [exc |-> summary_endpoint.exc]
        ELSE IF stats.exc # "none" THEN [exc |-> stats.exc]
        ELSE [exc |-> "none",
              endpoint |-> ep,
              rank |-> rank,
              budget |-> get_budget(summaries[ep].text),
              rating |-> get_rating(summaries[ep].text),
              box_office |-> stats.frame]

-----------------------------------------------------------------------------
(* Direct calls of the extraction functions on bounded inputs.               *)

NoRun ==
    /\ ROOT_RESPONSE = Response(200, <<>>)
    /\ ROOT_HTML = "unset"
    /\ summary_pages = <<>>
    /\ box_office_pages = <<>>
    /\ pc = "idle"
    /\ error = "none"
    /\ movies = <<>>
    /\ futures = <<>>
    /\ next = 0
    /\ budgets = <<>>
    /\ ratings = <<>>
    /\ box_office = <<>>
    /\ csv = "absent"
    /\ overtaken = FALSE

\* Summary pages for get_budget: every text of up to MaxBudgetLen symbols.
BudgetSymbols == {BUDGET_LABEL, "$", "1", ",", "|", "x", NEWLINE}
BudgetTexts(n) == SeqsUpTo(BudgetSymbols, n)

\* Summary pages for get_rating: a first line, then a line of up to MaxRatingLen
\* pieces of markup.
RatingHeads == {<<RATING_LABEL, NEWLINE>>, <<RATING_LABEL>>, <<"x", NEWLINE>>,
                <<RATING_LABEL, "x", NEWLINE>>}
RatingPieces == {<<"x">>, OPEN_A, <<">">>, CLOSE_A}
RatingTexts(n) ==
    {h \o Flatten(l) : h \in RatingHeads, l \in SeqsUpTo(RatingPieces, n)}

InitSummary ==
    /\ NoRun
    /\ arg_summary \in BudgetTexts(MaxBudgetLen) \cup RatingTexts(MaxRatingLen)
    /\ arg_box_office = <<>>
    /\ called = "none"
    /\ ret = <<>>

CallGetBudget ==
    /\ called = "none"
    /\ called' = "get_budget"
    /\ ret' = get_budget(arg_summary)
    /\ UNCHANGED <<arg_summary, arg_box_office>>
    /\ UNCHANGED runVars

CallGetRating ==
    /\ called = "none"
    /\ called' = "get_rating"
    /\ ret' = get_rating(arg_summary)
    /\ UNCHANGED <<arg_summary, arg_box_office>>
    /\ UNCHANGED runVars

NextSummary == CallGetBudget \/ CallGetRating

SpecSummary == InitSummary /\ [][NextSummary]_vars

Digits == {"0", "1", "2", "3", "4", "5", "6", "7", "8", "9"}

\* C7: get_budget returns "N/A" or a dollar sign followed by one or more digits and
\* commas only, and get_rating returns "N/A" or a non-empty text.
C7_BudgetAndRatingWellFormed ==
    /\ called = "get_budget" =>
          \/ ret = NA_TEXT
          \/ /\ Len(ret) >= 2
             /\ ret[1] = "$"
             /\ \A k \in 2..Len(ret) : ret[k] \in Digits \cup {","}
    /\ called = "get_rating" => (ret = NA_TEXT \/ Len(ret) >= 1)

-----------------------------------------------------------------------------
(* Box-office pages *)

OTHER_COLUMNS ==      \* nine columns as well, but not the wanted ones
    <<"Date", "Rank", "Gross", "%YD", "%LW", "Theaters", "Per Theater", "Total Gross", "Day">>
SHORT_COLUMNS == <<"Record", "Rank", "Amount">>

Headers == {watned_columns, OTHER_COLUMNS, SHORT_COLUMNS}

DateCells == {"Jan 2, 2022", "Feb 1, 2022", NaN}
DaysCells == {"1", NaN}

Row(columns, date, days) ==
    [c \in Range(columns) |->
        IF c = "Date" THEN date ELSE IF c \in {"Days", "Day"} THEN days ELSE "x"]

Rows(columns) == {Row(columns, date, days) : date \in DateCells, days \in DaysCells}

Tables(n) == UNION {{Table(h, rs) : rs \in SeqsUpTo(Rows(h), n)} : h \in Headers}

BoxOfficeTexts(n, m) == SeqsUpTo(Tables(m), n)

InitBoxOffice ==
    /\ NoRun
    /\ arg_summary = <<>>
    /\ arg_box_office \in [rank : 1..MaxRank, text : BoxOfficeTexts(MaxTables, MaxRows)]
    /\ called = "none"
    /\ ret = <<>>

CallGetBoxOfficeStats ==
    /\ called = "none"
    /\ called' = "get_box_office_stats"
    /\ ret' = get_box_office_stats(arg_box_office.rank, arg_box_office.text)
    /\ UNCHANGED <<arg_summary, arg_box_office>>
    /\ UNCHANGED runVars

NextBoxOffice == CallGetBoxOfficeStats

SpecBoxOffice == InitBoxOffice /\ [][NextBoxOffice]_vars

HasWanted(text) == \E k \in 1..Len(text) : text[k].columns = watned_columns
FirstWanted(text) == text[Min({k \in 1..Len(text) : text[k].columns = watned_columns})]

\* C4: with no table of the wanted header on the page, get_box_office_stats returns
\* exactly one row with the movie's rank and "N/A" in Date, Gross, Theaters and Days;
\* with such a table, it returns the rows of the first one and no sentinel row.
C4_SentinelOrFirstTable ==
    called = "get_box_office_stats" =>
        /\ ret.exc = "none"
        /\ IF HasWanted(arg_box_office.text)
           THEN /\ Len(ret.frame) = Len(FirstWanted(arg_box_office.text).rows)
                /\ \A r \in 1..Len(ret.frame) :
                      /\ ret.frame[r]["Rank"] = arg_box_office.rank
                      /\ \A c \in KeptColumns :
                            ret.frame[r][c] =
                                IF FirstWanted(arg_box_office.text).rows[r][c] = NaN
                                THEN ZERO
                                ELSE FirstWanted(arg_box_office.text).rows[r][c]
           ELSE /\ Len(ret.frame) = 1
                /\ ret.frame[1]["Rank"] = arg_box_office.rank
                /\ \A c \in KeptColumns : ret.frame[1][c] = NA

-----------------------------------------------------------------------------
(* main(): the aggregation after the pool has delivered every result.        *)

Columns ==
    <<"Rank", "Movie", "Production Budget", "MPAA Rating", "Genre", "Date", "Gross",
      "Theaters", "Days">>

\* budgets |= result["budget"]: the later entry of a rank replaces the earlier one
DictUpdate(d, k, v) == [x \in DOMAIN d \cup {k} |-> IF x = k THEN v ELSE d[x]]

\* movies.merge(budget_and_rating, on="Rank"): an inner join in the order of movies
MergeDetails(ms, bs, rs) ==
    LET keep(m) == m.Rank \in DOMAIN bs \cap DOMAIN rs
        add(m) == [Rank |-> m.Rank, Movie |-> m.Movie, Genre |-> m.Genre,
                   budget |-> bs[m.Rank], rating |-> rs[m.Rank]]
        kept == SelectSeq(ms, keep)
    IN  [i \in 1..Len(kept) |-> add(kept[i])]

\* A faulty variant: the merge without validate.
NotValidated(right) == TRUE

\* validate="many_to_one": the keys of the right-hand table are unique
many_to_one(right) ==
    \A i, j \in 1..Len(right) : right[i].Rank = right[j].Rank => i = j

\* one box-office row joined with one movie, with the columns of the report
Joined(b, m) ==
    [c \in Range(Columns) |->
        CASE c = "Rank" -> b["Rank"]
          [] c = "Movie" -> m.Movie
          [] c = "Production Budget" -> m.budget
          [] c = "MPAA Rating" -> m.rating
          [] c = "Genre" -> m.Genre
          [] OTHER -> b[c]]

\* pd.concat(box_office).merge(movies, on="Rank"): an inner join in the order of the
\* box-office rows
MergeBoxOffice(rows, ms) ==
    LET matches(b) == SelectSeq(ms, LAMBDA m : m.Rank = b["Rank"])
    IN  Flatten([i \in 1..Len(rows) |->
                    [k \in 1..Len(matches(rows[i])) |-> Joined(rows[i], matches(rows[i])[k])]])

\* pd.Timestamp(date): the date strings the site prints, and the 0.0 that fillna puts
\* in an empty cell (the epoch); anything else raises.
Parseable == {"Jan 2, 2022", "Feb 1, 2022", ZERO}
Timestamp(date) ==
    CASE date = "Jan 2, 2022" -> 2
      [] date = "Feb 1, 2022" -> 32
      [] date = ZERO -> 0

\* lambda date: pd.Timestamp(date) if date != "N/A" else date
date_for_sorting(date) ==
    IF date # NA THEN [str |-> FALSE, ts |-> Timestamp(date), text |-> ""]
    ELSE [str |-> TRUE, ts |-> 0, text |-> date]

\* lambda days: int(days) if days != "N/A" else days
IntDays(days) == IF days = NA THEN days ELSE IF days = ZERO THEN "0" ELSE days

\* The order sort_values puts two sort keys in: timestamps by time, and a string after
\* every timestamp (pandas orders a column of mixed values with the non-strings first).
KeyLess(a, b) ==
    \/ ~a.str /\ b.str
    \/ ~a.str /\ ~b.str /\ a.ts < b.ts

\* A faulty variant: by=["Rank"] alone.
RowLessByRank(a, b) == a.row["Rank"] < b.row["Rank"]

\* by=["Rank", "date_for_sorting"]
RowLess(a, b) ==
    \/ a.row["Rank"] < b.row["Rank"]
    \/ a.row["Rank"] = b.row["Rank"] /\ KeyLess(a.key, b.key)

\* Insert x after every element that is not greater: the sort is stable.
RECURSIVE Insert(_, _)
Insert(sorted, x) ==
    IF sorted = <<>> THEN <<x>>
    ELSE IF RowLess(x, Head(sorted)) THEN <<x>> \o sorted
    ELSE <<Head(sorted)>> \o Insert(Tail(sorted), x)

RECURSIVE sort_values(_)
sort_values(keyed) ==
    IF keyed = <<>> THEN <<>>
    ELSE Insert(sort_values(SubSeq(keyed, 1, Len(keyed) - 1)), keyed[Len(keyed)])

\* Lines 94-108 of main(): the exception it ends with, or the rows it writes.
Aggregate(ms, bs, rs, frames) ==
    LET merged == MergeDetails(ms, bs, rs)
        out == MergeBoxOffice(Flatten(frames), merged)
        keyed == [i \in 1..Len(out) |->
                    [row |-> [out[i] EXCEPT !["Days"] = IntDays(@)],
                     key |-> date_for_sorting(out[i]["Date"])]]
        sorted == sort_values(keyed)
    IN  IF frames = <<>> THEN [exc |-> "ValueError: No objects to concatenate"]
        ELSE IF ~many_to_one(merged) THEN [exc |-> "MergeError"]
        ELSE IF \E i \in 1..Len(out) : out[i]["Date"] \notin Parseable \cup {NA}
             THEN [exc |-> "ValueError: could not convert string to Timestamp"]
        ELSE [exc |-> "none", rows |-> [i \in 1..Len(sorted) |-> sorted[i].row]]

-----------------------------------------------------------------------------
(* The inputs of a run: the listing and the pages behind its links.          *)

\* A summary page with a budget and a rating, and one with neither.
FULL_SUMMARY ==
    <<"x", BUDGET_LABEL, "x", "$", "1", ",", "5", "x", NEWLINE,
      RATING_LABEL, "x", NEWLINE,
      "x", "<", "a", "x", ">", "R", "<", "/", "a", ">">>
BARE_SUMMARY == <<"x", NEWLINE, "x">>

SummaryResponses == {Response(200, FULL_SUMMARY), Response(200, BARE_SUMMARY)}

\* A box-office page with the wanted table after another one, its dates out of order
\* and one cell empty; one whose wanted table has no data row; one without any table;
\* and one with another table only.
FULL_BOX_OFFICE ==
    <<Table(OTHER_COLUMNS, <<Row(OTHER_COLUMNS, "Jan 2, 2022", "1")>>),
      Table(watned_columns, <<Row(watned_columns, "Feb 1, 2022", NaN),
                              Row(watned_columns, "Jan 2, 2022", "1")>>)>>
EMPTY_BOX_OFFICE == <<Table(watned_columns, <<>>)>>
NO_TABLES == <<>>
OTHER_BOX_OFFICE == <<Table(SHORT_COLUMNS, <<Row(SHORT_COLUMNS, NaN, NaN)>>)>>

BoxOfficeResponses ==
    {Response(200, FULL_BOX_OFFICE), Response(200, EMPTY_BOX_OFFICE), Response(200, NO_TABLES),
     Response(200, OTHER_BOX_OFFICE)}

\* What the site holds for one movie: whether its listing row links to a summary page,
\* and the two pages.  One of the two pages varies at a time between the successful
\* responses; the server may also answer both requests with an error page.
MovieCase(link, summary, box) == [link |-> link, summary |-> summary, box_office |-> box]
ERROR_TEXT == <<"x", NEWLINE, "x">>
ERROR_TABLES == <<Table(SHORT_COLUMNS, <<>>)>>
MovieCases ==
    {MovieCase(FALSE, Response(404, ERROR_TEXT), Response(404, ERROR_TABLES)),
     MovieCase(TRUE, Response(404, ERROR_TEXT), Response(404, ERROR_TABLES))}
    \cup {MovieCase(TRUE, sr, Response(200, FULL_BOX_OFFICE)) : sr \in SummaryResponses}
    \cup {MovieCase(TRUE, Response(200, FULL_SUMMARY), br) : br \in BoxOfficeResponses}

Letters == <<"A", "B", "C", "D", "E", "F", "G", "H">>

\* The last two rows of the listing's table hold totals.
FOOTER ==
    <<[Rank |-> 0, Movie |-> <<"T", "1">>, Genre |-> NaN, href |-> NoSummaryLink],
      [Rank |-> 0, Movie |-> <<"T", "2">>, Genre |-> NaN, href |-> NoSummaryLink]>>

Listing(n, ranks, titles, cases) ==
    [j \in 1..n |-> [Rank |-> ranks[j], Movie |-> titles[j], Genre |-> "Action",
                     href |-> IF cases[j].link THEN j ELSE NoSummaryLink]] \o FOOTER

Idle ==
    /\ arg_summary = <<>>
    /\ arg_box_office = <<>>
    /\ called = "none"
    /\ ret = <<>>

Inputs(n, ranks, titles, cases, status) ==
    /\ ROOT_RESPONSE = Response(status, Listing(n, ranks, titles, cases))
    /\ ROOT_HTML = "unset"
    /\ summary_pages = [j \in 1..n |-> cases[j].summary]
    /\ box_office_pages = [j \in 1..n |-> cases[j].box_office]
    /\ pc = "import"
    /\ error = "none"
    /\ movies = <<>>
    /\ futures = <<>>
    /\ next = 0
    /\ budgets = <<>>
    /\ ratings = <<>>
    /\ box_office = <<>>
    /\ csv = "absent"
    /\ overtaken = FALSE
    /\ Idle

\* Every listing of up to MaxMovies movies with titles that differ from the first
\* character on, any ranks, and any case per movie; and a listing request that fails.
Init ==
    \E n \in 0..MaxMovies :
        \E ranks \in [1..n -> 1..MaxRank], cases \in [1..n -> MovieCases] :
            \E status \in IF n = 0 THEN Statuses ELSE {200} :
                Inputs(n, ranks, [j \in 1..n |-> <<Letters[j]>>], cases, status)

\* Listings of movies with different titles that may begin with one another or end in
\* the ellipsis, with the ranks in listing order.
TitleChoices == {<<"A">>, <<"A", "B">>, <<"A", ELLIPSIS>>, <<"B">>}
TitleCases ==
    {MovieCase(l, sr, Response(200, FULL_BOX_OFFICE)) :
        l \in BOOLEAN, sr \in {Response(200, FULL_SUMMARY), Response(200, BARE_SUMMARY)}}

InitTitles ==
    \E n \in 0..MaxMovies :
        \E titles \in [1..n -> TitleChoices], cases \in [1..n -> TitleCases] :
            /\ \A i, j \in 1..n : titles[i] = titles[j] => i = j
            /\ Inputs(n, [j \in 1..n |-> j], titles, cases, 200)

-----------------------------------------------------------------------------
(* The run *)

NoResult == [exc |-> "pending"]

\* Lines 17-20: the listing request at import; raise_for_status() ends the run.
Import ==
    /\ pc = "import"
    /\ IF raise_for_status(ROOT_RESPONSE)
       THEN /\ pc' = "error"
            /\ error' = "HTTPError"
            /\ UNCHANGED ROOT_HTML
       ELSE /\ pc' = "main"
            /\ ROOT_HTML' = ROOT_RESPONSE.text
            /\ UNCHANGED error
    /\ UNCHANGED <<ROOT_RESPONSE, summary_pages, box_office_pages, movies, futures, next,
                   budgets, ratings, box_office, csv, overtaken>>
    /\ UNCHANGED callVars

\* pd.read_html(ROOT_HTML)[0][:-2]
DropTotals(table) == SubSeq(table, 1, Len(table) - 2)

\* Lines 80-89: main() reads the listing and executor.map submits one call per movie.
Submit ==
    /\ pc = "main"
    /\ movies' = DropTotals(ROOT_HTML)
    /\ futures' = [i \in 1..Len(movies') |-> [state |-> "pending", result |-> NoResult]]
    /\ next' = 1
    /\ pc' = "map"
    /\ UNCHANGED <<ROOT_RESPONSE, ROOT_HTML, summary_pages, box_office_pages, error,
                   budgets, ratings, box_office, csv, overtaken>>
    /\ UNCHANGED callVars

Running == {i \in DOMAIN futures : futures[i].state = "running"}

\* A pool thread takes a pending call; at most MAX_THREADING_WORKERS run at a time.
Run(i) ==
    /\ futures[i].state = "pending"
    /\ Cardinality(Running) < MAX_THREADING_WORKERS
    /\ futures' = [futures EXCEPT ![i].state = "running"]
    /\ UNCHANGED <<ROOT_RESPONSE, ROOT_HTML, summary_pages, box_office_pages, pc, error,
                   movies, next, budgets, ratings, box_office, csv, overtaken>>
    /\ UNCHANGED callVars

\* The call returns or raises; the future keeps either.
Finish(i) ==
    /\ futures[i].state = "running"
    /\ futures' = [futures EXCEPT ![i] =
          [state |-> "finished",
           result |-> get_budget_rating_box_office(movies[i].Movie, movies[i].Rank,
                                                   ROOT_HTML, summary_pages, box_office_pages)]]
    /\ overtaken' = (overtaken \/ \E j \in 1..(i - 1) :
                                      futures[j].state \in {"pending", "running"})
    /\ UNCHANGED <<ROOT_RESPONSE, ROOT_HTML, summary_pages, box_office_pages, pc, error,
                   movies, next, budgets, ratings, box_office, csv>>
    /\ UNCHANGED callVars

\* executor.map yields the results in the order of submission: the next one is that
\* of call next, once it has finished.
Yielded == next

\* A faulty variant: the loop reads the result of a call that still runs.
ReadyEarly(future) == future.state \in {"running", "finished"}

\* The loop gets a result only when the call has finished.
Ready(future) == future.state = "finished"

\* What the loop does with a call that raised: the exception leaves the loop.
Reraise(result) == result.exc # "none"

\* Lines 89-92: one turn of the loop.  When the call raised, the generator cancels
\* the calls still pending and the exception leaves the with block.
Collect ==
    /\ pc = "map"
    /\ Yielded \in DOMAIN futures
    /\ Ready(futures[Yielded])
    /\ LET result == futures[Yielded].result
       IN  IF Reraise(result)
           THEN /\ error' = result.exc
                /\ pc' = "exit"
                /\ futures' = [i \in DOMAIN futures |->
                                 IF futures[i].state = "pending"
                                 THEN [futures[i] EXCEPT !.state = "cancelled"]
                                 ELSE futures[i]]
                /\ UNCHANGED <<next, budgets, ratings, box_office>>
           ELSE /\ budgets' = DictUpdate(budgets, result.rank, result.budget)
                /\ ratings' = DictUpdate(ratings, result.rank, result.rating)
                /\ box_office' = Append(box_office, result.box_office)
                /\ next' = next + 1
                /\ UNCHANGED <<pc, error, futures>>
    /\ UNCHANGED <<ROOT_RESPONSE, ROOT_HTML, summary_pages, box_office_pages, movies, csv,
                   overtaken>>
    /\ UNCHANGED callVars

\* The loop has taken every result; the with block ends.
LoopEnd ==
    /\ pc = "map"
    /\ next > Len(futures)
    /\ pc' = "aggregate"
    /\ UNCHANGED <<ROOT_RESPONSE, ROOT_HTML, summary_pages, box_office_pages, error, movies,
                   futures, next, budgets, ratings, box_office, csv, overtaken>>
    /\ UNCHANGED callVars

\* The with block's shutdown(wait=True) on the way out of an exception: the calls
\* that run are waited for, then the exception ends the run.
Exit ==
    /\ pc = "exit"
    /\ Running = {}
    /\ pc' = "error"
    /\ UNCHANGED <<ROOT_RESPONSE, ROOT_HTML, summary_pages, box_office_pages, error, movies,
                   futures, next, budgets, ratings, box_office, csv, overtaken>>
    /\ UNCHANGED callVars

\* Lines 94-108: merge, sort and write the report.
WriteReport ==
    /\ pc = "aggregate"
    /\ LET out == Aggregate(movies, budgets, ratings, box_office)
       IN  IF out.exc # "none"
           THEN /\ pc' = "error"
                /\ error' = out.exc
                /\ UNCHANGED csv
           ELSE /\ pc' = "done"
                /\ csv' = out.rows
                /\ UNCHANGED error
    /\ UNCHANGED <<ROOT_RESPONSE, ROOT_HTML, summary_pages, box_office_pages, movies,
                   futures, next, budgets, ratings, box_office, overtaken>>
    /\ UNCHANGED callVars

Next ==
    \/ Import
    \/ Submit
    \/ \E i \in DOMAIN futures : Run(i)
    \/ \E i \in DOMAIN futures : Finish(i)
    \/ Collect
    \/ LoopEnd
    \/ Exit
    \/ WriteReport

\* Some action of Next is enabled: the run has not stopped.
CanStep ==
    \/ pc \in {"import", "main", "aggregate"}
    \/ \E i \in DOMAIN futures : futures[i].state \in {"pending", "running"}
    \/ pc = "map" /\ (next > Len(futures) \/ Ready(futures[Yielded]))
    \/ pc = "exit" /\ Running = {}

Spec == Init /\ [][Next]_vars

SpecTitles == InitTitles /\ [][Next]_vars

-----------------------------------------------------------------------------
(* Claims about the run *)

Written == pc = "done"
Aborted == pc \in {"exit", "error"}

\* The movies of the listing, as main() keeps them.
Listed == DropTotals(ROOT_RESPONSE.text)
ListedRanks == {Listed[i].Rank : i \in 1..Len(Listed)}

\* What the call for listing row i returns, computed from the inputs alone.
CallOf(i) ==
    get_budget_rating_box_office(Listed[i].Movie, Listed[i].Rank, ROOT_RESPONSE.text,
                                 summary_pages, box_office_pages)

\* C1: the report of a completed run has at least one row for every rank of the
\* listing, and every row's rank is a rank of the listing.
C1_EveryRankReported ==
    Written =>
        /\ \A r \in ListedRanks : \E k \in 1..Len(csv) : csv[k]["Rank"] = r
        /\ \A k \in 1..Len(csv) : csv[k]["Rank"] \in ListedRanks

\* The run with the calls made one after the other in listing order.
RECURSIVE Sequential(_, _, _, _)
Sequential(i, bs, rs, frames) ==
    IF i > Len(Listed) THEN Aggregate(Listed, bs, rs, frames)
    ELSE LET result == CallOf(i)
         IN  IF result.exc # "none" THEN [exc |-> result.exc]
             ELSE Sequential(i + 1,
                             DictUpdate(bs, result.rank, result.budget),
                             DictUpdate(rs, result.rank, result.rating),
                             Append(frames, result.box_office))

SequentialRun ==
    IF raise_for_status(ROOT_RESPONSE) THEN [exc |-> "HTTPError"]
    ELSE Sequential(1, <<>>, <<>>, <<>>)

\* C2: whatever the order in which the workers start and complete, the run ends as
\* the sequential run on the same pages does: with the same report, rows and order,
\* or with the same exception and no report.
C2_OutcomeIndependentOfInterleaving ==
    (Written \/ Aborted) =>
        LET sequential == SequentialRun
        IN  /\ Written => sequential.exc = "none" /\ csv = sequential.rows
            /\ Aborted => sequential.exc = error /\ csv = "absent"

\* A call completed before one submitted earlier, and the report is written with rows
\* of two ranks.
C2_Witness ==
    /\ Written
    /\ overtaken
    /\ \E k, l \in 1..Len(csv) : csv[k]["Rank"] # csv[l]["Rank"]

DuplicateRanks ==
    \E i, j \in 1..Len(Listed) : i # j /\ Listed[i].Rank = Listed[j].Rank

\* The lookup of the detail-page link fails for a movie of the listing.
LookupFails ==
    /\ ~raise_for_status(ROOT_RESPONSE)
    /\ \E i \in 1..Len(Listed) :
          get_summary_endpoint(Listed[i].Movie, ROOT_RESPONSE.text).exc # "none"

\* What the error taxonomy lets end a run: a failed listing request, an empty listing,
\* a failed lookup, two movies of one rank.
Fatal ==
    \/ raise_for_status(ROOT_RESPONSE)
    \/ Listed = <<>>
    \/ LookupFails
    \/ DuplicateRanks

\* C3: a missing budget label, rating block or box-office table never aborts a run
\* that nothing else aborts, and its movie's rows carry "N/A" in that field.
C3_MissingFieldsNeverAbort ==
    ~Fatal =>
        /\ ~Aborted
        /\ Written =>
              \A i \in 1..Len(Listed) : \A k \in 1..Len(csv) :
                  (csv[k]["Rank"] = Listed[i].Rank /\ summary_pages[i].text = BARE_SUMMARY)
                      => csv[k]["Production Budget"] = NA_TEXT /\ csv[k]["MPAA Rating"] = NA_TEXT

\* C5: when the link lookup fails for a movie of the listing, the report is never
\* written and the run can stop only in an error, whatever the other calls return and
\* in whatever order they complete.
C5_LookupFailureAbortsRun ==
    LookupFails =>
        /\ csv = "absent"
        /\ pc \notin {"aggregate", "done"}
        /\ (pc = "error" /\ error # "none") \/ CanStep

\* The run has ended in the lookup's error although another movie's call returned.
C5_Witness ==
    /\ LookupFails
    /\ pc = "error"
    /\ error = "ValueError: Got no summary response"
    /\ overtaken
    /\ futures[1].result.exc = "none"

\* C6: the body of a response with a non-success status is never given to the
\* extraction: a call that returned a result has read two successful responses, and a
\* failed listing request ends the run.
C6_NonSuccessNeverExtracted ==
    /\ (raise_for_status(ROOT_RESPONSE) /\ pc # "import") => pc = "error"
    /\ \A i \in DOMAIN futures :
          (futures[i].state = "finished" /\ futures[i].result.exc = "none") =>
              /\ ~raise_for_status(summary_pages[futures[i].result.endpoint])
              /\ ~raise_for_status(box_office_pages[futures[i].result.endpoint])

\* C8: the rows of a written report are in ascending rank order and, within a rank,
\* in ascending order of the parsed date; the sort key is not a column.
C8_ReportSorted ==
    Written =>
        /\ \A k \in 1..Len(csv) : DOMAIN csv[k] = Range(Columns)
        /\ \A k, l \in 1..Len(csv) : k < l =>
              /\ csv[k]["Rank"] <= csv[l]["Rank"]
              /\ (/\ csv[k]["Rank"] = csv[l]["Rank"]
                  /\ csv[k]["Date"] # NA
                  /\ csv[l]["Date"] # NA)
                     => Timestamp(csv[k]["Date"]) <= Timestamp(csv[l]["Date"])

\* A report with the sentinel date in one rank and real dates in another, from a
\* listing whose ranks were not in order.
C8_Witness ==
    /\ Written
    /\ \E k, l \in 1..Len(csv) :
          /\ csv[k]["Date"] = NA
          /\ csv[l]["Date"] # NA
          /\ csv[k]["Rank"] # csv[l]["Rank"]
    /\ \E k, l \in 1..Len(csv) :
          csv[k]["Rank"] = csv[l]["Rank"] /\ csv[k]["Date"] # csv[l]["Date"]
    /\ \E i, j \in 1..Len(Listed) : i < j /\ Listed[i].Rank > Listed[j].Rank

\* C9: a report is written only when the rank of every box-office row is the rank of
\* exactly one movie; two listing rows of one rank end the run in a merge error.
C9_ReportOnlyForUniqueRanks ==
    /\ Written =>
          \A f \in 1..Len(box_office) : \A r \in 1..Len(box_office[f]) :
              Cardinality({i \in 1..Len(movies) :
                              movies[i].Rank = box_office[f][r]["Rank"]}) = 1
    /\ (~raise_for_status(ROOT_RESPONSE) /\ DuplicateRanks) =>
          /\ csv = "absent"
          /\ pc # "done"
          /\ (pc = "error" /\ \A i \in 1..Len(Listed) : CallOf(i).exc = "none")
                => error = "MergeError"

\* Every call returned and the merge found two movies of one rank.
C9_Witness ==
    /\ DuplicateRanks
    /\ pc = "error"
    /\ error = "MergeError"
    /\ Len(box_office) = Len(Listed)

\* C10: the endpoint a movie's call uses is the href of the movie's own anchor.
C10_OwnEndpoint ==
    \A i \in DOMAIN futures :
        (/\ futures[i].state = "finished"
         /\ futures[i].result.exc = "none"
         /\ ROOT_HTML[i].href # NoSummaryLink)
            => futures[i].result.endpoint = ROOT_HTML[i].href

====
